---- MODULE Spec2Model ----
(***************************************************************************)
(* A model of the variational Monte Carlo program of djpetrie/QMC:         *)
(*   src/qmcSimulation.py  Electron, Pair, Qmc (the ensemble)              *)
(*   src/main.py           main (the charge sweep), calibrate_system,      *)
(*                         print_results                                   *)
(*                                                                         *)
(* Numbers.  Python floats are modelled in fixed point: a length, a        *)
(* charge, an energy or a probability x is the integer x * Scale.  The     *)
(* IEEE values a numpy division by zero produces (inf, -inf, nan) are kept *)
(* as values of their own, see Fin/PInf/NInf/NaN.  Random draws            *)
(* (np.random.uniform, random.random) are inputs chosen from small sample  *)
(* sets.  The display object (src/qmcDisplay.py) only reads the ensemble   *)
(* and is left out.                                                        *)
(***************************************************************************)
EXTENDS Integers, Sequences, FiniteSets, TLC

\* ------------------------------------------------------------------ bounds
\* Fixed-point resolution: one unit is 1/Scale.
Scale == 100
\* Number of calls made on a constructed ensemble in Spec.
MaxCalls == 2

\* Electron coordinates stay in -MaxCoord..MaxCoord: trial displacements that
\* would leave this box are not drawn (the box bounds the random walk only).
MaxCoord == Scale

\* --------------------------------------------------- main.py configuration
\* DEFAULT_RADIUS (4 in the source); the model's ball has radius 2.
DEFAULT_RADIUS == 2 * Scale
\* DEFAULT_DELTA_R (0.5 in the source); the model's lattice step is 1.
DEFAULT_DELTA_R == Scale
\* DEFAULT_CHARGE = 1.25 and DEFAULT_DELTA_Q = 0.05, in hundredths.
DEFAULT_CHARGE == 125
DEFAULT_DELTA_Q == 5
\* DEFAULT_UPDATES (2500 in the source): production updates per charge.
DEFAULT_UPDATES == 2
\* DEFAULT_Q_STEPS (15 in the source): number of charge values.
DEFAULT_Q_STEPS == 2
\* window_size of calibrate_system (25 in the source).
window_size == 2

VARIABLES
  status,     \* outcome of Qmc(...): "none" (not yet called), "ok", "error", "hang"
  num_pairs,  \* Qmc.num_pairs
  pairs,      \* Qmc.pairs: sequence of [e1 |-> [r, norm], e2 |-> [r, norm]]
  radius,     \* Qmc.radius
  step_size,  \* Qmc.step_size
  charge,     \* Qmc.charge
  op,         \* name of the last call made on the ensemble
  draw,       \* the random values that call consumed
  before,     \* Qmc.pairs as that call found it
  result,     \* the value the last avg_energy() returned
  calls,      \* number of calls made on the ensemble since its construction
  \* main and calibrate_system
  pc,              \* where main is: "for_i", "set_charge", "calibrate", "cal_for",
                   \* "production", "fit", "print", "done" ("idle": main not run)
  i,               \* main's loop variable
  j,               \* the production loop's variable
  wi,              \* calibrate_system's loop variable i
  buffer,          \* calibrate_system's buffer
  previous_avg,    \* calibrate_system's previous_avg
  avg_sys_energy,  \* main's accumulator
  energy_data,     \* main's energy_data
  poly,            \* the coefficients np.polyfit returned
  report,          \* what print_results did
  \* observers (no code reads them)
  log,             \* the kinds of ensemble calls of the current sweep step, in
                   \* order, a run of equal kinds written once
  nReset,          \* reset() calls made by main so far
  nUpdate,         \* update() calls since the current window or phase began
  reads,           \* values avg_energy() returned since then
  nWindows         \* windows completed by the current calibration

apiVars == <<op, draw, before, result, calls>>
mainVars == <<pc, i, j, wi, buffer, previous_avg, avg_sys_energy, energy_data,
              poly, report>>
obsVars == <<log, nReset, nUpdate, reads, nWindows>>
vars == <<status, num_pairs, pairs, radius, step_size, charge, op, draw, before,
          result, calls, pc, i, j, wi, buffer, previous_avg, avg_sys_energy, energy_data,
          poly, report, log, nReset, nUpdate, reads, nWindows>>

\* ------------------------------------------------------------ float values
Fin(n) == [k |-> "fin", v |-> n]
PInf == [k |-> "inf", v |-> 0]
NInf == [k |-> "ninf", v |-> 0]
NaN == [k |-> "nan", v |-> 0]
\* What a Python-level ZeroDivisionError leaves in place of a value.
Raised == [k |-> "raise", v |-> 0]

\* IEEE addition.
FAdd(a, b) ==
  IF a.k = "nan" \/ b.k = "nan" THEN NaN
  ELSE IF a.k = "fin" /\ b.k = "fin" THEN Fin(a.v + b.v)
  ELSE IF a.k = "fin" THEN b
  ELSE IF b.k = "fin" THEN a
  ELSE IF a.k = b.k THEN a
  ELSE NaN

\* numpy's float64 quotient n / d of two finite numbers: a division by zero
\* gives inf, -inf or nan (with a RuntimeWarning), never an exception.
NpDiv(n, d) ==
  IF d # 0 THEN Fin((n * Scale) \div d)
  ELSE IF n > 0 THEN PInf
  ELSE IF n < 0 THEN NInf
  ELSE NaN

\* IEEE multiplication.
FMul(a, b) ==
  IF a.k = "nan" \/ b.k = "nan" THEN NaN
  ELSE IF a.k = "fin" /\ b.k = "fin" THEN Fin((a.v * b.v) \div Scale)
  ELSE IF (a.k = "fin" /\ a.v = 0) \/ (b.k = "fin" /\ b.v = 0) THEN NaN
  ELSE LET neg(x) == x.k = "ninf" \/ (x.k = "fin" /\ x.v < 0)
       IN IF neg(a) = neg(b) THEN PInf ELSE NInf

\* A float divided by a positive count.
FDivCount(a, n) == IF a.k = "fin" THEN Fin(a.v \div n) ELSE a

\* IEEE a < b: false as soon as one side is nan.
FLess(a, b) ==
  IF a.k = "nan" \/ b.k = "nan" THEN FALSE
  ELSE IF a.k = "fin" /\ b.k = "fin" THEN a.v < b.v
  ELSE IF a.k = "ninf" THEN b.k # "ninf"
  ELSE IF a.k = "inf" THEN FALSE
  ELSE b.k = "inf"

\* ---------------------------------------------------------------- geometry
RECURSIVE SqrtSearch(_, _, _)
SqrtSearch(n, lo, hi) ==
  IF lo >= hi THEN lo
  ELSE LET mid == (lo + hi + 1) \div 2
       IN IF mid * mid <= n THEN SqrtSearch(n, mid, hi)
                            ELSE SqrtSearch(n, lo, mid - 1)

\* np.sqrt, to the fixed-point resolution (rounded down): the whole part of
\* the root first, then the root between two consecutive whole numbers.
SqrtCompute(n) ==
  LET m == n \div (Scale * Scale)
      a == SqrtSearch(m, 0, IF m < 40000 THEN m ELSE 40000)
  IN SqrtSearch(n, a * Scale, a * Scale + Scale - 1)

\* The roots of the squared lengths that occur between points whose
\* coordinates are whole numbers, up to a length of 7, computed once.
SqrtTable == [n \in {m * Scale * Scale : m \in 0..49} |-> SqrtCompute(n)]

Sqrt(n) == IF n \in DOMAIN SqrtTable THEN SqrtTable[n] ELSE SqrtCompute(n)

\* disp(r) and the three inline norm computations: sqrt(r0^2 + r1^2 + r2^2).
Norm(r) == Sqrt(r[1] * r[1] + r[2] * r[2] + r[3] * r[3])

\* get_dist(r1, r2).
get_dist(r1, r2) ==
  Sqrt((r2[1] - r1[1]) * (r2[1] - r1[1]) + (r2[2] - r1[2]) * (r2[2] - r1[2])
       + (r2[3] - r1[3]) * (r2[3] - r1[3]))

VAdd(a, b) == <<a[1] + b[1], a[2] + b[2], a[3] + b[3]>>

Electron(r, norm) == [r |-> r, norm |-> norm]
Pair(e1, e2) == [e1 |-> e1, e2 |-> e2]

\* ------------------------------------------------------------ random draws
\* Samples of np.random.uniform(-rad, rad, 3): one corner of the cube (outside
\* the ball whenever rad > 0) and two points of the ball with different norms.
CubeSamples(rad) ==
  LET h == rad \div 2 IN {<<rad, rad, rad>>, <<0, h, 0>>, <<h, h, 0>>}

\* Qmc.random_vector: the values its rejection loop can return, each with its
\* norm.  The loop never ends when the set is empty.
random_vector(rad) ==
  {<<r, Norm(r)>> : r \in {s \in CubeSamples(rad) : Norm(s) <= rad}}

\* Samples of np.random.uniform(-step, step, 3), a point of [-step, step)^3:
\* the lower end and the middle of the interval for the first coordinate.
StepSamples(step) == {<<0 - step, 0, 0>>, <<0, 0, 0>>}

\* Samples of random.random(), a number of [0, 1).
UnitSamples == {0, Scale \div 2}

InBox(r) == \A c \in 1..3 : r[c] >= 0 - MaxCoord /\ r[c] <= MaxCoord

\* ------------------------------------------------------------- exponential
Fine == Scale * Scale

\* The alternating series of exp(-y / Scale) for 0 <= y <= Scale, in units of
\* 1/Fine: acc is the partial sum, m the magnitude of the last term.
RECURSIVE ExpSeries(_, _, _, _)
ExpSeries(y, k, m, acc) ==
  IF k > 8 \/ m = 0 THEN acc
  ELSE LET m2 == (m * y) \div (k * Scale)
       IN ExpSeries(y, k + 1, m2, IF k % 2 = 1 THEN acc - m2 ELSE acc + m2)

\* exp(-1), in units of 1/Fine.
ExpMinusOne == ExpSeries(Scale, 1, Fine, Fine)

\* exp(-n / Scale) for n >= 0, in units of 1/Fine.
RECURSIVE ExpNegCompute(_)
ExpNegCompute(n) ==
  IF n <= Scale THEN ExpSeries(n, 1, Fine, Fine)
  ELSE (ExpNegCompute(n - Scale) * ExpMinusOne) \div Fine

\* The values for arguments up to 10, computed once.
ExpNegTable == [n \in 0..(10 * Scale) |-> ExpNegCompute(n)]

ExpNeg(n) == IF n \in DOMAIN ExpNegTable THEN ExpNegTable[n] ELSE ExpNegCompute(n)

Max(a, b) == IF a >= b THEN a ELSE b

\* np.exp(x / Scale) * Scale.  A float exponential of these arguments is never
\* zero, so the fixed-point value is rounded up to at least one unit; for
\* x > 0 it is the reciprocal of exp(-x) and at least Scale (that is, 1.0).
np_exp(x) ==
  IF x <= 0 THEN Max(1, (ExpNeg(0 - x) + Scale - 1) \div Scale)
  ELSE (Scale * Fine) \div Max(1, ExpNeg(x))

\* move_accept(r1, r2, t1, t2, charge) = exp(2 * charge * (r1 + r2 - t1 - t2)).
move_accept(r1, r2, t1, t2, q) == np_exp((2 * q * (r1 + r2 - t1 - t2)) \div Scale)

\* ------------------------------------------------------------------ energy
\* Pair.energy(charge): -q^2 + (q - 2)/r1 + (q - 2)/r2 + 1/r12 with the cached
\* norms r1, r2 and the distance r12 of the two positions.
energy(pair, q) ==
  LET _r1 == pair.e1.norm
      _r2 == pair.e2.norm
      _r12 == get_dist(pair.e1.r, pair.e2.r)
  IN FAdd(FAdd(FAdd(Fin(0 - ((q * q) \div Scale)), NpDiv(q - 2 * Scale, _r1)),
               NpDiv(q - 2 * Scale, _r2)),
          NpDiv(Scale, _r12))

RECURSIVE SumEnergy(_, _, _)
SumEnergy(ps, n, q) ==
  IF n = 0 THEN Fin(0) ELSE FAdd(SumEnergy(ps, n - 1, q), energy(ps[n], q))

\* Qmc.avg_energy(): the sum over self.pairs divided by self.num_pairs.  With
\* no pairs the sum is the Python float 0.0 and 0.0 / 0 raises.
avg_energy(ps, n, q) ==
  IF n = 0 THEN Raised ELSE FDivCount(SumEnergy(ps, Len(ps), q), n)

\* ---------------------------------------------------------- the ensemble
\* generate_pairs: ds[pj] = <<a, b>>, the two random_vector() results of
\* iteration pj, each <<r, norm>>.
generate_pairs(ds) ==
  [pj \in DOMAIN ds |-> Pair(Electron(ds[pj][1][1], ds[pj][1][2]),
                            Electron(ds[pj][2][1], ds[pj][2][2]))]

\* One iteration of reset's loop with random_vector() results a then b:
\*   pair.e1.r, pair.e1.norm = a
\*   pair.e1.r, pair.e2.norm = b
ResetPair(pair, a, b) ==
  Pair(Electron(b[1], a[2]), Electron(pair.e2.r, b[2]))

\* ResetPairs done by generating pairs again, which appends to the list.
ResetPairsAppended(ps, ds) == ps \o generate_pairs(ds)

\* The pair list after reset(): the same list, each pair reassigned in place.
ResetPairs(ps, ds) == [pj \in DOMAIN ps |-> ResetPair(ps[pj], ds[pj][1], ds[pj][2])]

\* The trial configuration of one pair: t = r + displacement, with its norm.
TrialPair(pair, d) ==
  LET t1 == VAdd(pair.e1.r, d.d1)
      t2 == VAdd(pair.e2.r, d.d2)
  IN Pair(Electron(t1, Norm(t1)), Electron(t2, Norm(t2)))

\* Accepts with the current and the trial norms exchanged in the call.
AcceptsSwapped(pair, trial, q, u) ==
  move_accept(trial.e1.norm, trial.e2.norm, pair.e1.norm, pair.e2.norm, q) > u

\* The test of update: move_accept(...) > random.random().
Accepts(pair, trial, q, u) ==
  move_accept(pair.e1.norm, pair.e2.norm, trial.e1.norm, trial.e2.norm, q) > u

\* One iteration of update's loop: the pair afterwards.
UpdatePair(pair, d, q) ==
  LET trial == TrialPair(pair, d)
  IN IF Accepts(pair, trial, q, d.u) THEN trial ELSE pair

\* The pair list after update() with draws ds (one [d1, d2, u] per pair).
UpdatePairs(ps, n, ds, q) ==
  [pj \in DOMAIN ps |-> IF pj <= n THEN UpdatePair(ps[pj], ds[pj], q) ELSE ps[pj]]

\* The draws update() can make for pairs ps.
UpdateDraws(ps, n, step) ==
  {ds \in [1..n -> [d1 : StepSamples(step), d2 : StepSamples(step), u : UnitSamples]] :
     \A pj \in 1..n : /\ InBox(VAdd(ps[pj].e1.r, ds[pj].d1))
                     /\ InBox(VAdd(ps[pj].e2.r, ds[pj].d2))}

\* The draws of n iterations of generate_pairs or reset.
VectorDraws(n, rad) == [1..n -> random_vector(rad) \X random_vector(rad)]

\* ------------------------------------------------------ actions of the API
\* Qmc(np, rad, step, q).  np.zeros(2 * np) raises for np < 0; with np > 0 and
\* rad < 0 no sample has norm <= rad and random_vector loops forever; nothing
\* else is checked.
Construct(np, rad, step, q) ==
  /\ status = "none"
  /\ num_pairs' = np
  /\ radius' = rad
  /\ step_size' = step
  /\ charge' = q
  /\ op' = "construct"
  /\ before' = <<>>
  /\ UNCHANGED <<result, calls, mainVars, obsVars>>
  /\ IF np < 0
       THEN status' = "error" /\ pairs' = <<>> /\ draw' = <<>>
     ELSE IF np > 0 /\ random_vector(rad) = {}
       THEN status' = "hang" /\ pairs' = <<>> /\ draw' = <<>>
     ELSE \E ds \in VectorDraws(np, rad) :
            /\ status' = "ok"
            /\ pairs' = generate_pairs(ds)
            /\ draw' = ds

Reset ==
  /\ status = "ok"
  /\ calls < MaxCalls
  /\ calls' = calls + 1
  /\ \E ds \in VectorDraws(Len(pairs), radius) :
       /\ pairs' = ResetPairs(pairs, ds)
       /\ draw' = ds
  /\ op' = "reset"
  /\ before' = pairs
  /\ UNCHANGED <<status, num_pairs, radius, step_size, charge, result, mainVars, obsVars>>

SetCharge(q) ==
  /\ status = "ok"
  /\ calls < MaxCalls
  /\ calls' = calls + 1
  /\ charge' = q
  /\ op' = "set_charge"
  /\ before' = pairs
  /\ draw' = <<>>
  /\ UNCHANGED <<status, num_pairs, pairs, radius, step_size, result, mainVars, obsVars>>

Update ==
  /\ status = "ok"
  /\ calls < MaxCalls
  /\ calls' = calls + 1
  /\ \E ds \in UpdateDraws(pairs, num_pairs, step_size) :
       /\ pairs' = UpdatePairs(pairs, num_pairs, ds, charge)
       /\ draw' = ds
  /\ op' = "update"
  /\ before' = pairs
  /\ UNCHANGED <<status, num_pairs, radius, step_size, charge, result, mainVars, obsVars>>

AvgEnergy ==
  /\ status = "ok"
  /\ calls < MaxCalls
  /\ calls' = calls + 1
  /\ result' = avg_energy(pairs, num_pairs, charge)
  /\ op' = "avg_energy"
  /\ before' = pairs
  /\ draw' = <<>>
  /\ UNCHANGED <<status, num_pairs, pairs, radius, step_size, charge, mainVars, obsVars>>

\* The parameters Construct and SetCharge are tried with.
PairCounts == {0 - 1, 0, 1, 2}
Radii == {0 - DEFAULT_RADIUS, 0, DEFAULT_RADIUS}
Charges == {DEFAULT_CHARGE, DEFAULT_CHARGE + DEFAULT_DELTA_Q}

\* main's variables before main runs.
MainIdle ==
  /\ pc = "idle"
  /\ i = 0
  /\ j = 0
  /\ wi = 0
  /\ buffer = <<>>
  /\ previous_avg = Fin(0)
  /\ avg_sys_energy = Fin(0)
  /\ energy_data = <<>>
  /\ poly = <<>>
  /\ report = [outcome |-> "none"]
  /\ log = <<>>
  /\ nReset = 0
  /\ nUpdate = 0
  /\ reads = <<>>
  /\ nWindows = 0

Init ==
  /\ MainIdle
  /\ status = "none"
  /\ num_pairs = 0
  /\ pairs = <<>>
  /\ radius = 0
  /\ step_size = 0
  /\ charge = 0
  /\ op = "none"
  /\ draw = <<>>
  /\ before = <<>>
  /\ result = Fin(0)
  /\ calls = 0

Next ==
  \/ \E np \in PairCounts, rad \in Radii :
       Construct(np, rad, DEFAULT_DELTA_R, DEFAULT_CHARGE)
  \/ Reset
  \/ \E q \in Charges : SetCharge(q)
  \/ Update
  \/ AvgEnergy

Spec == Init /\ [][Next]_vars

\* ------------------------------------------------- claims on the ensemble
Electrons == {"e1", "e2"}

\* C1: in every state reached by construction and then any calls of reset,
\* set_charge, update and avg_energy, every electron's cached norm is the
\* norm of its own position.  (Stated as claimed; reset breaks it.)
C1_NormMatchesPosition ==
  status = "ok" =>
    \A pj \in 1..Len(pairs) : \A e \in Electrons :
      pairs[pj][e].norm = Norm(pairs[pj][e].r)

\* C2: reset gives both electrons of every pair a newly sampled position in
\* the ball together with that position's norm: the first random_vector()
\* result goes to the first electron, the second to the second.  (Stated as
\* claimed; the second result's position is written to the first electron.)
C2_ResetRegeneratesBoth ==
  op = "reset" =>
    \A pj \in 1..Len(pairs) :
      /\ pairs[pj].e1 = Electron(draw[pj][1][1], draw[pj][1][2])
      /\ pairs[pj].e2 = Electron(draw[pj][2][1], draw[pj][2][2])

\* C3: constructing an ensemble with a non-positive number of pairs or a
\* non-positive radius fails: it ends in an error, with no usable ensemble and
\* no endless loop.  (Stated as claimed; the constructor validates nothing.)
C3_InvalidConstructionFails ==
  (status # "none" /\ (num_pairs <= 0 \/ radius <= 0)) => status = "error"

\* C5: in one update, for every pair, the trial is accepted iff the
\* acceptance ratio exceeds the uniform draw; an accepted pair has both
\* positions and both norms replaced by the trial's, a rejected pair is left
\* as it was, and each pair's outcome depends on its own state and draws only.
C5_UpdateAcceptsPerPair ==
  op = "update" =>
    /\ Len(pairs) = Len(before)
    /\ \A pj \in 1..Len(pairs) :
         LET t1 == VAdd(before[pj].e1.r, draw[pj].d1)
             t2 == VAdd(before[pj].e2.r, draw[pj].d2)
             A == move_accept(before[pj].e1.norm, before[pj].e2.norm,
                              Norm(t1), Norm(t2), charge)
         IN IF A > draw[pj].u
              THEN pairs[pj] = Pair(Electron(t1, Norm(t1)), Electron(t2, Norm(t2)))
              ELSE pairs[pj] = before[pj]

\* An update of two pairs that accepted the first and rejected the second.
C5_Witness ==
  /\ op = "update"
  /\ Len(pairs) = 2
  /\ pairs[1] # before[1]
  /\ pairs[2] = before[2]
  /\ pairs[1].e1.r = VAdd(before[1].e1.r, draw[1].d1)

\* C6: reset changes only positions and norms: num_pairs, the length of the
\* pair list, radius, step_size and charge are what they were before it.
C6_ResetFrame ==
  [][op' = "reset" =>
       /\ num_pairs' = num_pairs
       /\ Len(pairs') = Len(pairs)
       /\ Len(pairs') = num_pairs'
       /\ radius' = radius
       /\ step_size' = step_size
       /\ charge' = charge]_vars

\* A reset of two pairs, made after the charge was changed, that moved an electron.
C6_Witness ==
  /\ op = "reset"
  /\ num_pairs = 2
  /\ Len(pairs) = 2
  /\ pairs # before
  /\ charge # DEFAULT_CHARGE

\* ------------------------------------------------------------------ main
RECURSIVE FSum(_, _)
FSum(xs, n) == IF n = 0 THEN Fin(0) ELSE FAdd(FSum(xs, n - 1), xs[n])

\* np.average(buffer).
np_average(xs) == FDivCount(FSum(xs, Len(xs)), Len(xs))

\* np.zeros(n).
np_zeros(n) == [x \in 1..n |-> Fin(0)]

\* The observer's record of a call of kind c.
Logged(l, c) == IF l # <<>> /\ l[Len(l)] = c THEN l ELSE Append(l, c)

\* NeedsReset without the test of i.
NeedsResetAlways(n) == TRUE

\* main, line 66: if i != 0.
NeedsReset(n) == n # 0

\* main, line 69: the charge of sweep step n.
SweepCharge(n) == DEFAULT_CHARGE + n * DEFAULT_DELTA_Q

\* calibrate_system, line 105: previous_avg = 100.0.
Sentinel == Fin(100 * Scale)

\* Improves with <= for <.
ImprovesOrEqual(current_avg, prev) == ~FLess(prev, current_avg)

\* Improves with the comparison turned round.
ImprovesReversed(current_avg, prev) == FLess(prev, current_avg)

\* calibrate_system, line 117: if current_avg < previous_avg.
Improves(current_avg, prev) == FLess(current_avg, prev)

\* ProductionGoesOn with one iteration too many.
ProductionGoesOnInclusive(n) == n <= DEFAULT_UPDATES

\* main, line 72: the production loop goes on while j < updates.
ProductionGoesOn(n) == n < DEFAULT_UPDATES

\* main, line 75: avg_sys_energy / updates.
SweepEnergy(total) == FDivCount(total, DEFAULT_UPDATES)

\* main, lines 66-68: sim.reset() for every sweep step but the first.
MainReset ==
  /\ pc = "for_i"
  /\ i < DEFAULT_Q_STEPS
  /\ NeedsReset(i)
  /\ \E ds \in VectorDraws(Len(pairs), radius) : pairs' = ResetPairs(pairs, ds)
  /\ pc' = "set_charge"
  /\ log' = Logged(log, "reset")
  /\ nReset' = nReset + 1
  /\ UNCHANGED <<status, num_pairs, radius, step_size, charge, apiVars, i, j, wi,
                 buffer, previous_avg, avg_sys_energy, energy_data, poly, report,
                 nUpdate, reads, nWindows>>

\* main, line 69: sim.set_charge(charge + i * delta_q).
MainSetCharge ==
  /\ \/ pc = "set_charge"
     \/ pc = "for_i" /\ i < DEFAULT_Q_STEPS /\ ~NeedsReset(i)
  /\ charge' = SweepCharge(i)
  /\ pc' = "calibrate"
  /\ log' = Logged(log, "set_charge")
  /\ UNCHANGED <<status, num_pairs, pairs, radius, step_size, apiVars, i, j, wi,
                 buffer, previous_avg, avg_sys_energy, energy_data, poly, report,
                 nReset, nUpdate, reads, nWindows>>

\* calibrate_system, lines 101-107: its local variables.
CalStart ==
  /\ pc = "calibrate"
  /\ buffer' = np_zeros(window_size)
  /\ previous_avg' = Sentinel
  /\ wi' = 0
  /\ pc' = "cal_for"
  /\ nUpdate' = 0
  /\ reads' = <<>>
  /\ nWindows' = 0
  /\ UNCHANGED <<status, num_pairs, pairs, radius, step_size, charge, apiVars, i, j,
                 avg_sys_energy, energy_data, poly, report, log, nReset>>

\* calibrate_system, lines 108-112: one iteration of the window loop.
CalSample ==
  /\ pc = "cal_for"
  /\ wi < window_size
  /\ LET current == avg_energy(pairs, num_pairs, charge)
     IN /\ buffer' = [buffer EXCEPT ![wi + 1] = current]
        /\ reads' = Append(reads, current)
  /\ \E ds \in UpdateDraws(pairs, num_pairs, step_size) :
       pairs' = UpdatePairs(pairs, num_pairs, ds, charge)
  /\ wi' = wi + 1
  /\ nUpdate' = nUpdate + 1
  /\ log' = Logged(log, "calibration")
  /\ UNCHANGED <<status, num_pairs, radius, step_size, charge, apiVars, pc, i, j,
                 previous_avg, avg_sys_energy, energy_data, poly, report, nReset,
                 nWindows>>

\* calibrate_system, lines 116-120, then lines 107 and 71: the end of a window.
CalWindowEnd ==
  /\ pc = "cal_for"
  /\ wi = window_size
  /\ LET current_avg == np_average(buffer)
     IN IF Improves(current_avg, previous_avg)
          THEN /\ previous_avg' = current_avg
               /\ wi' = 0
               /\ pc' = "cal_for"
               /\ UNCHANGED <<avg_sys_energy, j>>
          ELSE /\ pc' = "production"
               /\ avg_sys_energy' = Fin(0)
               /\ j' = 0
               /\ UNCHANGED <<previous_avg, wi>>
  /\ nWindows' = nWindows + 1
  /\ nUpdate' = 0
  /\ reads' = <<>>
  /\ UNCHANGED <<status, num_pairs, pairs, radius, step_size, charge, apiVars, i,
                 buffer, energy_data, poly, report, log, nReset>>

\* main, lines 72-74: sim.update(); avg_sys_energy += sim.avg_energy().
ProdStep ==
  /\ pc = "production"
  /\ ProductionGoesOn(j)
  /\ \E ds \in UpdateDraws(pairs, num_pairs, step_size) :
       /\ pairs' = UpdatePairs(pairs, num_pairs, ds, charge)
       /\ LET e == avg_energy(pairs', num_pairs, charge)
          IN /\ avg_sys_energy' = FAdd(avg_sys_energy, e)
             /\ reads' = Append(reads, e)
  /\ j' = j + 1
  /\ nUpdate' = nUpdate + 1
  /\ log' = Logged(log, "production")
  /\ UNCHANGED <<status, num_pairs, radius, step_size, charge, apiVars, pc, i, wi,
                 buffer, previous_avg, energy_data, poly, report, nReset, nWindows>>

\* RecordIndex writing the first entry whatever the sweep step.
RecordIndexFirst(n) == 1

\* main, line 75: energy_data[i], the entry sweep step n writes (the model's
\* sequences start at 1).
RecordIndex(n) == n + 1

\* main, line 75 and the next iteration of line 65.
Record ==
  /\ pc = "production"
  /\ ~ProductionGoesOn(j)
  /\ energy_data' = [energy_data EXCEPT ![RecordIndex(i)] = SweepEnergy(avg_sys_energy)]
  /\ i' = i + 1
  /\ pc' = "for_i"
  /\ log' = <<>>
  /\ UNCHANGED <<status, num_pairs, pairs, radius, step_size, charge, apiVars, j, wi,
                 buffer, previous_avg, avg_sys_energy, poly, report, nReset,
                 nUpdate, reads, nWindows>>

\* Coefficient triples (a, b, c) np.polyfit is taken to return: a parabola, a
\* line (a = 0) and a constant (a = b = 0).  numpy is not part of the program;
\* its result is an input of print_results.
PolySamples ==
  {<<Scale, 0 - 3 * Scale, 0>>, <<0, Scale, 0>>, <<0, 0, Scale>>}

\* main, line 81: poly = np.polyfit(q_space, energy_data, deg=2).
Fit ==
  /\ pc = "for_i"
  /\ i >= DEFAULT_Q_STEPS
  /\ \E c \in PolySamples : poly' = c
  /\ pc' = "print"
  /\ UNCHANGED <<status, num_pairs, pairs, radius, step_size, charge, apiVars, i, j,
                 wi, buffer, previous_avg, avg_sys_energy, energy_data, report,
                 obsVars>>

\* print_results(t_total, poly), lines 148-160: the vertex is computed with
\* numpy float64 arithmetic and printed; nothing tests a.
print_results(c) ==
  LET a == c[1]
      b == c[2]
      x_min == NpDiv(0 - b, 2 * a)
      y_min == FAdd(FAdd(FMul(Fin(a), FMul(x_min, x_min)), FMul(Fin(b), x_min)),
                    Fin(c[3]))
  IN [outcome |-> "printed", x_min |-> x_min, y_min |-> y_min]

\* main, line 88.
PrintResults ==
  /\ pc = "print"
  /\ report' = print_results(poly)
  /\ pc' = "done"
  /\ UNCHANGED <<status, num_pairs, pairs, radius, step_size, charge, apiVars, i, j,
                 wi, buffer, previous_avg, avg_sys_energy, energy_data, poly,
                 obsVars>>

\* The numbers of pairs main is run with (DEFAULT_NUM_PAIRS is 75 in the source).
SweepPairCounts == {1}

\* main after line 63: sim = Qmc(num_pairs, radius, delta_r, charge).
InitSweep ==
  /\ status = "ok"
  /\ num_pairs \in SweepPairCounts
  /\ pairs \in {generate_pairs(ds) : ds \in VectorDraws(num_pairs, DEFAULT_RADIUS)}
  /\ radius = DEFAULT_RADIUS
  /\ step_size = DEFAULT_DELTA_R
  /\ charge = DEFAULT_CHARGE
  /\ op = "construct"
  /\ draw = <<>>
  /\ before = <<>>
  /\ result = Fin(0)
  /\ calls = 0
  /\ pc = "for_i"
  /\ i = 0
  /\ j = 0
  /\ wi = 0
  /\ buffer = <<>>
  /\ previous_avg = Fin(0)
  /\ avg_sys_energy = Fin(0)
  /\ energy_data = np_zeros(DEFAULT_Q_STEPS)
  /\ poly = <<>>
  /\ report = [outcome |-> "none"]
  /\ log = <<>>
  /\ nReset = 0
  /\ nUpdate = 0
  /\ reads = <<>>
  /\ nWindows = 0

NextSweep ==
  \/ MainReset
  \/ MainSetCharge
  \/ CalStart
  \/ CalSample
  \/ CalWindowEnd
  \/ ProdStep
  \/ Record
  \/ Fit
  \/ PrintResults

SpecSweep == InitSweep /\ [][NextSweep]_vars

\* ---------------------------------------------------- claims on the sweep
\* C4: when the fit's leading coefficient a is 0, the reporting stage ends in
\* a fit-degeneracy error instead of computing -b / (2a).  (Stated as claimed;
\* print_results divides and prints inf or nan.)
C4_DegenerateFitIsAnError ==
  (pc = "done" /\ poly[1] = 0) => report.outcome = "fit_error"

\* The mean of the readings the observer holds.
ReadsMean(n) == FDivCount(FSum(reads, Len(reads)), n)

\* C7: in every sweep step, after calibration the controller makes exactly
\* DEFAULT_UPDATES update() calls, reads avg_energy() once after each, and
\* records the sum of those readings divided by DEFAULT_UPDATES; the charge is
\* the one set for the sweep step from set_charge to the recording.
C7_ProductionSampling ==
  /\ [][(pc = "cal_for" /\ pc' = "production") => (nUpdate' = 0 /\ reads' = <<>>)]_vars
  /\ [][(pc = "production" /\ pc' = "production") =>
         /\ nUpdate' = nUpdate + 1
         /\ reads' = Append(reads, avg_energy(pairs', num_pairs', charge'))
         /\ charge' = charge]_vars
  /\ [][(pc = "production" /\ pc' # "production") =>
         /\ nUpdate = DEFAULT_UPDATES
         /\ Len(reads) = DEFAULT_UPDATES
         /\ energy_data'[i + 1] = ReadsMean(DEFAULT_UPDATES)
         /\ charge' = charge]_vars
  /\ [](pc \in {"calibrate", "cal_for", "production"} =>
         charge = DEFAULT_CHARGE + i * DEFAULT_DELTA_Q)

\* The first sweep step recorded from two different finite readings.
C7_Witness ==
  /\ pc = "for_i"
  /\ i = 1
  /\ Len(reads) = DEFAULT_UPDATES
  /\ reads[1] # reads[2]
  /\ reads[1].k = "fin"
  /\ reads[2].k = "fin"
  /\ energy_data[1] = ReadsMean(DEFAULT_UPDATES)
  /\ energy_data[1] # Fin(0)

\* C8: calibration starts with previous_avg = 100.0; a completed window whose
\* mean is not strictly below previous_avg ends it, any other completed
\* window lowers previous_avg to its mean and starts another window of
\* window_size readings; calibration never ends inside a window.
C8_CalibrationStopRule ==
  /\ [][pc = "calibrate" =>
         (pc' = "cal_for" /\ previous_avg' = Fin(100 * Scale) /\ wi' = 0)]_vars
  /\ [][(pc = "cal_for" /\ wi < window_size) =>
         /\ pc' = "cal_for"
         /\ wi' = wi + 1
         /\ previous_avg' = previous_avg
         /\ reads' = Append(reads, avg_energy(pairs, num_pairs, charge))]_vars
  /\ [][(pc = "cal_for" /\ wi = window_size) =>
         /\ Len(reads) = window_size
         /\ nUpdate = window_size
         /\ IF FLess(ReadsMean(window_size), previous_avg)
              THEN /\ pc' = "cal_for"
                   /\ previous_avg' = ReadsMean(window_size)
                   /\ wi' = 0
                   /\ reads' = <<>>
              ELSE pc' = "production"]_vars

\* A calibration that ended on its third window, after two improving ones.
C8_Witness ==
  /\ pc = "production"
  /\ nWindows = 3
  /\ previous_avg.k = "fin"
  /\ FLess(previous_avg, Fin(100 * Scale))
  /\ ~FLess(np_average(buffer), previous_avg)

\* The first window of a calibration is complete and its mean exceeds 100.0.
FirstWindowAboveSentinel ==
  /\ pc = "cal_for"
  /\ wi = window_size
  /\ nWindows = 0
  /\ FLess(Fin(100 * Scale), ReadsMean(window_size))

\* C9 as claimed: if the first window's mean exceeds the 100.0 sentinel, the
\* calibration loop goes on with one more window before it can stop.
C9_FirstWindowAboveSentinelGoesOn ==
  [][FirstWindowAboveSentinel => pc' = "cal_for"]_vars

\* C9 as amended: if the first window's mean exceeds the 100.0 sentinel, the
\* calibration loop stops right after that window, which is its only one.
C9_FirstWindowAboveSentinelStops ==
  [][FirstWindowAboveSentinel =>
       (pc' = "production" /\ nWindows' = 1 /\ previous_avg' = Fin(100 * Scale))]_vars

\* A calibration that ended after one window whose mean exceeds 100.0.
C9_Witness ==
  /\ pc = "production"
  /\ nWindows = 1
  /\ j = 0
  /\ FLess(Fin(100 * Scale), np_average(buffer))

\* The calls a sweep step makes on the ensemble, in order.
StepCalls(n) ==
  (IF n > 0 THEN <<"reset">> ELSE <<>>) \o <<"set_charge", "calibration", "production">>

\* C10: for every sweep step i > 0 the ensemble is reset before set_charge,
\* which precedes calibration, which precedes the production updates; for
\* i = 0 there is no reset, so reset has been called i times when sweep step
\* i sets its charge.
C10_SweepStepOrder ==
  LET first == IF i > 0 THEN 1 ELSE 0
      done == CASE pc = "for_i" -> 0
                [] pc = "set_charge" -> 1
                [] pc = "calibrate" -> first + 1
                [] pc = "cal_for" -> IF wi > 0 \/ nWindows > 0 THEN first + 2 ELSE first + 1
                [] pc = "production" -> IF j > 0 THEN first + 3 ELSE first + 2
                [] OTHER -> 0
  IN /\ log = SubSeq(StepCalls(i), 1, done)
     /\ pc = "set_charge" => i > 0
     /\ nReset = IF pc \in {"for_i", "print", "done"} /\ i > 0 THEN i - 1 ELSE i
     /\ pc \in {"calibrate", "cal_for", "production"} =>
          charge = DEFAULT_CHARGE + i * DEFAULT_DELTA_Q

\* The second sweep step at the end of its production updates.
C10_Witness ==
  /\ pc = "production"
  /\ i = 1
  /\ j = DEFAULT_UPDATES
  /\ nReset = 1
  /\ log = <<"reset", "set_charge", "calibration", "production">>

\* C11: the energy curve is filled in sweep order and never rewritten: the
\* curve has DEFAULT_Q_STEPS entries; the entries of the sweep steps not yet
\* completed are as np.zeros left them; the end of sweep step i writes entry
\* i, the mean of that step's charge, and nothing else; no other step of the
\* program changes the curve, so an entry once recorded stays as it is; and
\* when the sweep is over every sweep step has recorded its entry.
C11_CurveAppendOnly ==
  /\ [](/\ Len(energy_data) = DEFAULT_Q_STEPS
        /\ i <= DEFAULT_Q_STEPS
        /\ \A k \in (i + 1)..DEFAULT_Q_STEPS : energy_data[k] = Fin(0))
  /\ [][i' # i =>
         /\ i' = i + 1
         /\ charge = DEFAULT_CHARGE + i * DEFAULT_DELTA_Q
         /\ energy_data' = [energy_data EXCEPT
                              ![i + 1] = FDivCount(avg_sys_energy, DEFAULT_UPDATES)]]_vars
  /\ [][energy_data' # energy_data => i' = i + 1]_vars
  /\ [][\A k \in 1..i : energy_data'[k] = energy_data[k]]_vars
  /\ [](pc \in {"print", "done"} => i = DEFAULT_Q_STEPS)

\* The sweep is over and its first two entries are different finite energies,
\* the first one recorded before the second sweep step began.
C11_Witness ==
  /\ pc = "done"
  /\ i = DEFAULT_Q_STEPS
  /\ Len(energy_data) = DEFAULT_Q_STEPS
  /\ energy_data[1].k = "fin"
  /\ energy_data[2].k = "fin"
  /\ energy_data[1] # Fin(0)
  /\ energy_data[2] # Fin(0)
  /\ energy_data[1] # energy_data[2]

====
